---- MODULE Spec2Model ----
(***************************************************************************)
(* Sticky Audio Player (src/main.js): the playback controller bound to one *)
(* HTML audio element, and the [Transl. ...] highlighter.                   *)
(*                                                                         *)
(* Time is counted in ticks of 1/RectWidth second, so that a click at      *)
(* pixel clientX of a progress bar RectWidth pixels wide seeks to the      *)
(* exact position (clientX / RectWidth) * duration.  Playback rates are    *)
(* counted in hundredths (0.75 is 75).  Text is a sequence of symbols: the *)
(* symbol "T" stands for the literal Transl. of the marker's opening       *)
(* token, "x" for any run of characters other than brackets.               *)
(***************************************************************************)
EXTENDS Integers, Sequences, FiniteSets, TLC

VARIABLES
  lifecycle,      \* "onload": listeners registered, active file not yet checked
                  \* "active": plugin loaded; "unloaded": after onunload
  currentFile,    \* this.currentFile: path of the bound document, or Null
  isPlaying,      \* this.isPlaying
  playBtn,        \* this.playBtn.innerHTML: "playIcon" or "pauseIcon"
  playbackSpeed,  \* this.playbackSpeed
  speedBtn,       \* this.speedBtn.textContent
  titleDisplay,   \* this.titleDisplay.textContent
  timeDisplay,    \* this.timeDisplay.textContent
  progressFill,   \* this.progressFill.style.width, as <<numerator, denominator>> of the fraction
  display,        \* this.playerContainer.style.display
  bodyActive,     \* document.body.classList contains 'sticky-audio-active'
  attached,       \* this.playerContainer is a child of document.body
  audioElement,   \* this.audioElement: src, paused, currentTime (ticks), duration
                  \* (seconds, or NaN), playbackRate (hundredths), and events, the
                  \* media events queued on the element and not yet dispatched
  paras,          \* the <p> elements of the reading view: innerHTML and processed flag
  timers,         \* pending setTimeout callbacks, each a highlightTranslations pass
  lastOp          \* history: the step taken last with its argument and what it
                  \* found: for handleFileOpen the branch and the source bound
                  \* before, for skip the position before, for a highlight
                  \* pass the paragraphs already flagged

ctlVars == <<currentFile, isPlaying, playBtn, playbackSpeed, speedBtn, titleDisplay,
             timeDisplay, progressFill, display, bodyActive, attached>>
hlVars == <<paras, timers>>
vars == <<lifecycle, ctlVars, audioElement, hlVars, lastOp>>

Null == "null"
\* the duration of a media element whose metadata is not loaded
NaN == -1

\* an infinite number, which isFinite tells from the others
Infinity == -2

----------------------------------------------------------------------------
(* Bounds of the model *)

\* pixels of the progress bar; also the number of ticks in a second
RectWidth == 2
\* the longest queue of undispatched media events
MaxEvents == 3
\* the most setTimeout callbacks pending at once
MaxTimers == 2
\* paragraphs of the reading view
NumParas == 1

\* the longest text of the scanned texts, in symbols
MaxLen == 7

\* the longest time formatted second by second, in seconds
MaxSeconds == 125

----------------------------------------------------------------------------
(* Documents of the host: path, basename and the audio field of the front  *)
(* matter, a sequence of characters.  "u1", "u2" stand for quote-free URLs *)

Quotes == {"'", "\""}

Docs ==
  { [path |-> "a.md", basename |-> "a", audio |-> <<"'", "u1", "'">>],
    [path |-> "b.md", basename |-> "b", audio |-> <<"\"", "u2">>],
    [path |-> "n.md", basename |-> "n", audio |-> <<>>] }

\* the null DocumentRef
NoFile == [path |-> Null, basename |-> Null, audio |-> <<>>]

\* durations, in seconds, that loaded metadata may report
Durations == {0, 15}

\* seconds of playback between two timeupdate events
Advances == {5}

----------------------------------------------------------------------------
(* Pure helpers *)

Min(a, b) == IF a < b THEN a ELSE b
Max(a, b) == IF a > b THEN a ELSE b

\* JavaScript truthiness of a number: NaN and 0 are falsy
Truthy(n) == n # NaN /\ n # 0

\* the quote-stripping replace of audioUrl: one leading quote and one
\* trailing quote are removed, each if present
CleanUrl_LeadingOnly(audioUrl) ==
  IF Len(audioUrl) >= 1 /\ audioUrl[1] \in Quotes THEN Tail(audioUrl) ELSE audioUrl

CleanUrl(audioUrl) ==
  LET rest == IF Len(audioUrl) >= 1 /\ audioUrl[1] \in Quotes
              THEN Tail(audioUrl) ELSE audioUrl
  IN  IF Len(rest) >= 1 /\ rest[Len(rest)] \in Quotes
      THEN SubSeq(rest, 1, Len(rest) - 1) ELSE rest

\* a toString without padStart
PadStart2_NoPad(str, n) == str

\* secs.toString().padStart(2, '0')
PadStart2(str, n) == IF n < 10 THEN "0" \o str ELSE str

\* formatTime(seconds), seconds given in ticks, or NaN, or infinite
FormatTime(ticks) ==
  IF ticks = NaN \/ ticks = Infinity THEN "0:00"
  ELSE LET seconds == ticks \div RectWidth
           mins == seconds \div 60
           secs == seconds % 60
       IN  ToString(mins) \o ":" \o PadStart2(ToString(secs), secs)

\* Number.prototype.toString of a rate given in hundredths: 75 is "0.75"
NumberToString(h) ==
  LET whole == h \div 100
      frac == h % 100
  IN  IF frac = 0 THEN ToString(whole)
      ELSE IF frac % 10 = 0 THEN ToString(whole) \o "." \o ToString(frac \div 10)
      ELSE ToString(whole) \o "." \o PadStart2(ToString(frac), frac)

\* const speeds = [0.75, 1, 1.25, 1.5, 1.75, 2]
speeds == <<75, 100, 125, 150, 175, 200>>

\* speeds.indexOf(x): zero-based, -1 when absent
IndexOf(x) ==
  IF \E i \in 1..Len(speeds) : speeds[i] = x
  THEN (CHOOSE i \in 1..Len(speeds) : speeds[i] = x) - 1
  ELSE -1

----------------------------------------------------------------------------
(* The HTML media element, as far as the plugin drives and observes it *)

\* defaultPlaybackRate, which the plugin never sets
DefaultPlaybackRate == 100

DurationTicks(a) == a.duration * RectWidth

\* the queue q with the events es queued behind it.  A timeupdate queued right
\* behind a timeupdate is folded into it: the listener reads the element when
\* it runs, so the two would show the same.
RECURSIVE Queued(_, _)
Queued(q, es) ==
  IF es = <<>> THEN q
  ELSE IF q # <<>> /\ q[Len(q)] = "timeupdate" /\ Head(es) = "timeupdate"
       THEN Queued(q, Tail(es))
       ELSE Queued(Append(q, Head(es)), Tail(es))

\* audioElement.src = url: the media element load algorithm.  Queued media
\* events are dropped, a playing element becomes paused without a pause
\* event, the position returns to 0, the duration becomes unknown and the
\* playbackRate returns to defaultPlaybackRate.
SetSrc(a, url) ==
  [src |-> url, paused |-> TRUE, currentTime |-> 0, duration |-> NaN,
   playbackRate |-> DefaultPlaybackRate,
   events |-> IF a.currentTime # 0 THEN <<"timeupdate">> ELSE <<>>]

\* audioElement.pause()
MediaPause(a) ==
  IF a.paused THEN a
  ELSE [a EXCEPT !.paused = TRUE, !.events = Queued(@, <<"timeupdate", "pause">>)]

\* audioElement.play(); allowed = FALSE when the backend rejects the request.
\* A play after the end of playback first seeks to the start.
MediaPlay(a, allowed) ==
  IF ~allowed \/ ~a.paused THEN a
  ELSE IF a.duration # NaN /\ a.currentTime = DurationTicks(a)
       THEN [a EXCEPT !.paused = FALSE, !.currentTime = 0,
                      !.events = Queued(@, <<"play", "timeupdate">>)]
       ELSE [a EXCEPT !.paused = FALSE, !.events = Queued(@, <<"play">>)]

\* audioElement.currentTime = t: a seek, clamped to the media timeline
SetCurrentTime(a, t) ==
  [a EXCEPT !.currentTime = Max(0, Min(t, DurationTicks(a))),
            !.events = Queued(@, <<"timeupdate">>)]

----------------------------------------------------------------------------
(* The highlighter's pattern: an opening bracket, the captured body made of *)
(* Transl. and then any number of items, and a closing bracket.  An item is *)
(* one character that is no bracket, or a group: an opening bracket, any    *)
(* characters other than a closing bracket, and a closing bracket.          *)

SpanOpen == "<span class=\"spoken-translation\">"
SpanClose == "</span>"

\* the texts the host renders into a paragraph
ParaTexts ==
  { <<"x">>,
    <<"x", "[", "T", "x", "]">>,
    <<"[", "T", "[", "T", "]", "]">> }

\* a check that finds the opening token everywhere
Includes_Always(html) == TRUE

\* html.includes('[Transl.')
Includes(html) ==
  \E i \in 1..(Len(html) - 1) : html[i] = "[" /\ html[i + 1] = "T"

\* a group that holds no bracket at all
GroupEnd_NoBrackets(html, i) ==
  IF i <= Len(html) /\ html[i] = "["
     /\ \E j \in (i + 1)..Len(html) :
          html[j] = "]" /\ \A k \in (i + 1)..(j - 1) : html[k] \notin {"[", "]"}
  THEN (CHOOSE j \in (i + 1)..Len(html) :
          html[j] = "]" /\ \A k \in (i + 1)..(j - 1) : html[k] # "]") + 1
  ELSE 0

\* a group at position i: the index after the group, 0 when it does not match
GroupEnd(html, i) ==
  IF i <= Len(html) /\ html[i] = "[" /\ \E j \in (i + 1)..Len(html) : html[j] = "]"
  THEN (CHOOSE j \in (i + 1)..Len(html) :
          html[j] = "]" /\ \A k \in (i + 1)..(j - 1) : html[k] # "]") + 1
  ELSE 0

\* an item that is never a group
ItemEnd_NoGroups(html, i) ==
  IF i > Len(html) THEN 0
  ELSE IF html[i] \notin {"[", "]"} THEN i + 1
  ELSE 0

\* one item at position i: the index after it, or 0
ItemEnd(html, i) ==
  IF i > Len(html) THEN 0
  ELSE IF html[i] \notin {"[", "]"} THEN i + 1
  ELSE GroupEnd(html, i)

\* the items and the closing bracket from position i, as many items as
\* possible first and fewer on failure: the index of the closing bracket, or 0
RECURSIVE BodyEnd(_, _)
BodyEnd(html, i) ==
  LET n == ItemEnd(html, i)
      longer == IF n # 0 THEN BodyEnd(html, n) ELSE 0
  IN  IF longer # 0 THEN longer
      ELSE IF i <= Len(html) /\ html[i] = "]" THEN i
      ELSE 0

\* the whole pattern at position i: the index of the closing bracket, or 0
MatchEnd(html, i) ==
  IF i + 1 <= Len(html) /\ html[i] = "[" /\ html[i + 1] = "T"
  THEN BodyEnd(html, i + 2)
  ELSE 0

\* a replace without the g flag: the leftmost match only
RECURSIVE ReplaceFrom_FirstOnly(_, _)
ReplaceFrom_FirstOnly(html, i) ==
  IF i > Len(html) THEN <<>>
  ELSE LET e == MatchEnd(html, i)
       IN  IF e # 0
           THEN <<"[", SpanOpen>> \o SubSeq(html, i + 1, e - 1) \o <<SpanClose, "]">>
                  \o SubSeq(html, e + 1, Len(html))
           ELSE <<html[i]>> \o ReplaceFrom_FirstOnly(html, i + 1)

\* html.replace(pattern, replacement) from position i on: leftmost matches,
\* none overlapping, each body wrapped in the span inside its brackets
RECURSIVE ReplaceFrom(_, _)
ReplaceFrom(html, i) ==
  IF i > Len(html) THEN <<>>
  ELSE LET e == MatchEnd(html, i)
       IN  IF e # 0
           THEN <<"[", SpanOpen>> \o SubSeq(html, i + 1, e - 1) \o <<SpanClose, "]">>
                  \o ReplaceFrom(html, e + 1)
           ELSE <<html[i]>> \o ReplaceFrom(html, i + 1)

Highlighted(html) == ReplaceFrom(html, 1)

----------------------------------------------------------------------------
(* para.innerHTML = highlighted: the markup is parsed into elements, and    *)
(* para.innerHTML reads their serialization.  Markup is text symbols, the   *)
(* tags of the wrapper span, and the tags "<em>", "</em>" of an inline      *)
(* formatting element the host may render.  The parser keeps the stack of   *)
(* open elements and the list of active formatting elements: an em closed   *)
(* by the end tag of a span around it is opened again before what follows,  *)
(* and an end tag without its element in the stack is dropped.              *)

EmOpen == "<em>"
EmClose == "</em>"

\* the end tag that serializes the element el
EndTag(el) == IF el.tag = "em" THEN EmClose ELSE SpanClose

\* the end tags of the open elements from the top of the stack down to index k
RECURSIVE EndTags(_, _)
EndTags(stack, k) ==
  IF Len(stack) < k THEN <<>>
  ELSE <<EndTag(stack[Len(stack)])>> \o EndTags(SubSeq(stack, 1, Len(stack) - 1), k)

OnStack(stack, id) == \E k \in 1..Len(stack) : stack[k].id = id

\* reconstruct the active formatting elements: every entry behind the last
\* one that is still open is opened anew, from entry j on
RECURSIVE Reopen(_, _)
Reopen(st, j) ==
  IF j > Len(st.active) THEN st
  ELSE Reopen([stack |-> Append(st.stack, [tag |-> "em", id |-> st.next]),
               active |-> [st.active EXCEPT ![j] = st.next],
               out |-> Append(st.out, EmOpen),
               next |-> st.next + 1], j + 1)

Reconstruct(st) ==
  LET open == {j \in 1..Len(st.active) : OnStack(st.stack, st.active[j])}
      first == IF open = {} THEN 1
               ELSE (CHOOSE j \in open : \A k \in open : k <= j) + 1
  IN  Reopen(st, first)

\* the open elements from index k up are closed
PopTo(st, k) ==
  [st EXCEPT !.stack = SubSeq(st.stack, 1, k - 1),
             !.out = st.out \o EndTags(st.stack, k)]

\* the tree builder's step for one token
Token(st, tok) ==
  IF tok = SpanOpen
  THEN LET r == Reconstruct(st)
       IN  [r EXCEPT !.stack = Append(r.stack, [tag |-> "span", id |-> r.next]),
                     !.out = Append(r.out, SpanOpen),
                     !.next = r.next + 1]
  ELSE IF tok = EmOpen
  THEN LET r == Reconstruct(st)
       IN  [r EXCEPT !.stack = Append(r.stack, [tag |-> "em", id |-> r.next]),
                     !.active = Append(r.active, r.next),
                     !.out = Append(r.out, EmOpen),
                     !.next = r.next + 1]
  ELSE IF tok = SpanClose
  THEN LET spans == {k \in 1..Len(st.stack) : st.stack[k].tag = "span"}
       IN  IF spans = {} THEN st
           ELSE PopTo(st, CHOOSE k \in spans : \A m \in spans : m <= k)
  ELSE IF tok = EmClose
  THEN IF st.active = <<>> THEN st
       ELSE LET id == st.active[Len(st.active)]
                rest == SubSeq(st.active, 1, Len(st.active) - 1)
            IN  IF ~OnStack(st.stack, id) THEN [st EXCEPT !.active = rest]
                ELSE [PopTo(st, CHOOSE k \in 1..Len(st.stack) : st.stack[k].id = id)
                        EXCEPT !.active = rest]
  ELSE LET r == Reconstruct(st)
       IN  [r EXCEPT !.out = Append(r.out, tok)]

RECURSIVE Parse(_, _)
Parse(st, markup) ==
  IF markup = <<>> THEN st.out \o EndTags(st.stack, 1)
  ELSE Parse(Token(st, Head(markup)), Tail(markup))

\* what para.innerHTML reads after para.innerHTML = markup
SetInnerHTML(markup) ==
  Parse([stack |-> <<>>, active |-> <<>>, out |-> <<>>, next |-> 1], markup)

\* the body of paragraphs.forEach, for one paragraph
HighlightPara_NoFlagCheck(para) ==
  IF ~Includes(para.html) THEN para
  ELSE [para EXCEPT !.processed = TRUE,
                    !.html = SetInnerHTML(Highlighted(para.html))]

HighlightPara(para) ==
  IF para.processed THEN para
  ELSE IF ~Includes(para.html) THEN para
  ELSE [para EXCEPT !.processed = TRUE,
                    !.html = SetInnerHTML(Highlighted(para.html))]

\* one highlightTranslations pass: a paragraph is visited once for each
\* container (.markdown-reading-view, .markdown-preview-view) it lies in
RECURSIVE Visit(_, _)
Visit(para, n) == IF n = 0 THEN para ELSE Visit(HighlightPara(para), n - 1)

\* the paragraphs that carry the data-transl-processed attribute
Flagged(ps) == {p \in DOMAIN ps : ps[p].processed}

HighlightTranslations(ps) == [p \in DOMAIN ps |-> Visit(ps[p], ps[p].containers)]

----------------------------------------------------------------------------
(* Initial state: onload has run createPlayer and registered its listeners *)

InitPlayer ==
  /\ lifecycle = "onload"
  /\ currentFile = Null
  /\ isPlaying = FALSE
  /\ playBtn = "playIcon"
  /\ playbackSpeed = 100
  /\ speedBtn = "1x"
  /\ titleDisplay = ""
  /\ timeDisplay = "0:00 / 0:00"
  /\ progressFill = <<0, 0>>        \* style.width not set yet
  /\ display = "none"
  /\ bodyActive = FALSE
  /\ attached = TRUE
  /\ audioElement = [src |-> <<>>, paused |-> TRUE, currentTime |-> 0,
                     duration |-> NaN, playbackRate |-> DefaultPlaybackRate,
                     events |-> <<>>]
  /\ timers = 0
  /\ lastOp = <<"createPlayer">>

\* the controller on a page without markers that the host leaves alone
Init ==
  /\ InitPlayer
  /\ paras = [p \in 1..NumParas |->
               [html |-> <<"x">>, processed |-> FALSE,
                containers |-> 2]]

\* the highlighter on a page of any of the texts, which the host goes on changing
InitHighlight ==
  /\ InitPlayer
  /\ paras \in [1..NumParas ->
                 [html : ParaTexts, processed : {FALSE}, containers : {1, 2}]]

\* the queue of undispatched media events stays within the model's bound
Room == Len(audioElement'.events) <= MaxEvents

\* the control surface is on screen, so its buttons can be clicked
Clickable == lifecycle = "active" /\ attached /\ display = "block"

----------------------------------------------------------------------------
(* The controller's methods *)

\* showPlayer()
ShowPlayer ==
  /\ display' = "block"
  /\ bodyActive' = TRUE

\* the branch handleFileOpen(file) takes
Branch(file) ==
  IF file = NoFile THEN "null"
  ELSE IF file.audio = <<>> THEN "noAudio"
  ELSE IF currentFile # file.path THEN "rebind"
  ELSE "same"

\* this.currentFile !== file.path
IsDifferentFile_Always(file) == TRUE

IsDifferentFile(file) == currentFile # file.path

\* the else branch of handleFileOpen: a file without audio changes nothing
NoAudio_HidesPlayer ==
  /\ display' = "none"
  /\ bodyActive' = FALSE
  /\ UNCHANGED <<currentFile, audioElement, titleDisplay, timeDisplay, progressFill>>

NoAudio ==
  UNCHANGED <<currentFile, audioElement, titleDisplay, timeDisplay,
              progressFill, display, bodyActive>>

\* handleFileOpen(file)
HandleFileOpen(file) ==
  IF file = NoFile
  THEN UNCHANGED <<ctlVars, audioElement, hlVars>>
  ELSE /\ timers + 2 <= MaxTimers
       /\ IF file.audio # <<>>
          THEN /\ IF IsDifferentFile(file)
                  THEN /\ currentFile' = file.path
                       /\ audioElement' = SetSrc(audioElement, CleanUrl(file.audio))
                       /\ titleDisplay' = file.basename
                       /\ timeDisplay' = "0:00 / 0:00"
                       /\ progressFill' = <<0, 1>>
                  ELSE UNCHANGED <<currentFile, audioElement, titleDisplay,
                                   timeDisplay, progressFill>>
               /\ ShowPlayer
          ELSE NoAudio
       /\ timers' = timers + 2
       /\ UNCHANGED <<isPlaying, playBtn, playbackSpeed, speedBtn, attached, paras>>

\* hidePlayer()
HidePlayer_KeepsFile ==
  /\ audioElement' = MediaPause(audioElement)
  /\ display' = "none"
  /\ bodyActive' = FALSE
  /\ UNCHANGED <<currentFile, isPlaying, playBtn, playbackSpeed, speedBtn,
                 titleDisplay, timeDisplay, progressFill, attached>>

HidePlayer ==
  /\ audioElement' = MediaPause(audioElement)
  /\ display' = "none"
  /\ bodyActive' = FALSE
  /\ currentFile' = Null
  /\ UNCHANGED <<isPlaying, playBtn, playbackSpeed, speedBtn, titleDisplay,
                 timeDisplay, progressFill, attached>>

\* togglePlay(); allowed = FALSE when the media backend rejects the play request
TogglePlay_SetsFlag(allowed) ==
  /\ audioElement' = IF audioElement.paused
                     THEN MediaPlay(audioElement, allowed)
                     ELSE MediaPause(audioElement)
  /\ isPlaying' = audioElement.paused
  /\ playBtn' = IF audioElement.paused THEN "pauseIcon" ELSE "playIcon"
  /\ UNCHANGED <<currentFile, playbackSpeed, speedBtn, titleDisplay, timeDisplay,
                 progressFill, display, bodyActive, attached>>

TogglePlay(allowed) ==
  /\ audioElement' = IF audioElement.paused
                     THEN MediaPlay(audioElement, allowed)
                     ELSE MediaPause(audioElement)
  /\ UNCHANGED ctlVars

\* skip(seconds)
Skip_SwappedMinMax(seconds) ==
  /\ audioElement' =
       IF Truthy(audioElement.duration)
       THEN SetCurrentTime(audioElement,
              Min(0, Max(DurationTicks(audioElement),
                         audioElement.currentTime + seconds * RectWidth)))
       ELSE audioElement
  /\ UNCHANGED ctlVars

Skip(seconds) ==
  /\ audioElement' =
       IF Truthy(audioElement.duration)
       THEN SetCurrentTime(audioElement,
              Max(0, Min(DurationTicks(audioElement),
                         audioElement.currentTime + seconds * RectWidth)))
       ELSE audioElement
  /\ UNCHANGED ctlVars

\* progressBar.onclick, a click clientX pixels right of the bar's left edge:
\* percent = clientX / RectWidth, and percent * duration seconds are
\* clientX * duration ticks
SeekToFraction_FromRight(clientX) ==
  /\ audioElement' =
       IF Truthy(audioElement.duration)
       THEN SetCurrentTime(audioElement, (RectWidth - clientX) * audioElement.duration)
       ELSE audioElement
  /\ UNCHANGED ctlVars

SeekToFraction(clientX) ==
  /\ audioElement' =
       IF Truthy(audioElement.duration)
       THEN SetCurrentTime(audioElement, clientX * audioElement.duration)
       ELSE audioElement
  /\ UNCHANGED ctlVars

\* the speed cycleSpeed() moves to from speed
NextSpeed_NoWrap(speed) ==
  LET currentIndex == IndexOf(speed)
      nextIndex == Min(currentIndex + 1, Len(speeds) - 1)
  IN  speeds[nextIndex + 1]

NextSpeed(speed) ==
  LET currentIndex == IndexOf(speed)
      nextIndex == (currentIndex + 1) % Len(speeds)
  IN  speeds[nextIndex + 1]

\* cycleSpeed()
CycleSpeed ==
  /\ playbackSpeed' = NextSpeed(playbackSpeed)
  /\ audioElement' = [audioElement EXCEPT !.playbackRate = playbackSpeed']
  /\ speedBtn' = NumberToString(playbackSpeed') \o "x"
  /\ UNCHANGED <<currentFile, isPlaying, playBtn, titleDisplay, timeDisplay,
                 progressFill, display, bodyActive, attached>>

\* an updateProgress that writes the time display only
UpdateProgress_NoFill ==
  LET current == audioElement.currentTime
      dur == IF audioElement.duration = NaN THEN 0 ELSE DurationTicks(audioElement)
  IN  /\ timeDisplay' = FormatTime(current) \o " / " \o FormatTime(dur)
      /\ UNCHANGED <<isPlaying, playBtn, progressFill>>

\* updateProgress()
UpdateProgress ==
  LET current == audioElement.currentTime
      dur == IF audioElement.duration = NaN THEN 0 ELSE DurationTicks(audioElement)
  IN  /\ progressFill' = IF dur > 0 THEN <<current, dur>> ELSE progressFill
      /\ timeDisplay' = FormatTime(current) \o " / " \o FormatTime(dur)
      /\ UNCHANGED <<isPlaying, playBtn>>

\* the listeners createPlayer adds to the audio element
OnMediaEvent(kind) ==
  /\ CASE kind \in {"timeupdate", "loadedmetadata"} -> UpdateProgress
       [] kind = "play" ->
            /\ isPlaying' = TRUE
            /\ playBtn' = "pauseIcon"
            /\ UNCHANGED <<timeDisplay, progressFill>>
       [] kind \in {"pause", "ended"} ->
            /\ isPlaying' = FALSE
            /\ playBtn' = "playIcon"
            /\ UNCHANGED <<timeDisplay, progressFill>>
  /\ UNCHANGED <<currentFile, playbackSpeed, speedBtn, titleDisplay, display,
                 bodyActive, attached>>

\* a destroyPlayer that leaves the class on document.body
DestroyPlayer_KeepsBodyClass ==
  /\ audioElement' = SetSrc(MediaPause(audioElement), <<>>)
  /\ attached' = FALSE
  /\ UNCHANGED <<currentFile, isPlaying, playBtn, playbackSpeed, speedBtn,
                 titleDisplay, timeDisplay, progressFill, display, bodyActive>>

\* destroyPlayer()
DestroyPlayer ==
  /\ audioElement' = SetSrc(MediaPause(audioElement), <<>>)
  /\ attached' = FALSE
  /\ bodyActive' = FALSE
  /\ UNCHANGED <<currentFile, isPlaying, playBtn, playbackSpeed, speedBtn,
                 titleDisplay, timeDisplay, progressFill, display>>

----------------------------------------------------------------------------
(* Steps: host events, clicks, timers, and the media element's own progress *)

\* onload's check of the active file, which ends onload
OnloadActiveFile(file) ==
  /\ lifecycle = "onload"
  /\ lifecycle' = "active"
  /\ HandleFileOpen(file)
  /\ lastOp' = <<"handleFileOpen", file.path, Branch(file), audioElement.src>>

\* the workspace's file-open event
FileOpen(file) ==
  /\ lifecycle = "active"
  /\ HandleFileOpen(file)
  /\ lastOp' = <<"handleFileOpen", file.path, Branch(file), audioElement.src>>
  /\ UNCHANGED lifecycle

\* what the host did to the page right before a pass, if anything
AfterHost == IF lastOp[1] = "host" THEN lastOp ELSE <<>>

\* the workspace's layout-change event
LayoutChange ==
  /\ lifecycle = "active"
  /\ paras' = HighlightTranslations(paras)
  /\ lastOp' = <<"highlightTranslations", Flagged(paras), AfterHost>>
  /\ UNCHANGED <<lifecycle, ctlVars, audioElement, timers>>

\* a setTimeout callback of handleFileOpen comes due
TimerFire ==
  /\ timers > 0
  /\ timers' = timers - 1
  /\ paras' = HighlightTranslations(paras)
  /\ lastOp' = <<"highlightTranslations", Flagged(paras), AfterHost>>
  /\ UNCHANGED <<lifecycle, ctlVars, audioElement>>

ClickSkip(seconds) ==
  /\ Clickable
  /\ Skip(seconds)
  /\ Room
  /\ lastOp' = <<"skip", seconds, audioElement.currentTime>>
  /\ UNCHANGED <<lifecycle, hlVars>>

ClickPlay(allowed) ==
  /\ Clickable
  /\ TogglePlay(allowed)
  /\ Room
  /\ lastOp' = <<"togglePlay", IF ~audioElement.paused THEN "pause"
                               ELSE IF allowed THEN "play" ELSE "rejected">>
  /\ UNCHANGED <<lifecycle, hlVars>>

ClickProgressBar(clientX) ==
  /\ Clickable
  /\ SeekToFraction(clientX)
  /\ Room
  /\ lastOp' = <<"seekToFraction", clientX, audioElement.duration>>
  /\ UNCHANGED <<lifecycle, hlVars>>

ClickSpeed ==
  /\ Clickable
  /\ CycleSpeed
  /\ lastOp' = <<"cycleSpeed">>
  /\ UNCHANGED <<lifecycle, hlVars>>

ClickClose ==
  /\ Clickable
  /\ HidePlayer
  /\ Room
  /\ lastOp' = <<"hidePlayer">>
  /\ UNCHANGED <<lifecycle, hlVars>>

\* onunload(): the workspace listeners are detached with the plugin
Onunload ==
  /\ lifecycle = "active"
  /\ lifecycle' = "unloaded"
  /\ DestroyPlayer
  /\ lastOp' = <<"onunload">>
  /\ UNCHANGED hlVars

\* the oldest queued media event is dispatched to its listener
DispatchEvent ==
  /\ audioElement.events # <<>>
  /\ OnMediaEvent(Head(audioElement.events))
  /\ audioElement' = [audioElement EXCEPT !.events = Tail(@)]
  /\ lastOp' = <<"media">>
  /\ UNCHANGED <<lifecycle, hlVars>>

\* The media element makes progress only once its queued events are
\* dispatched: they are tasks of the event loop, run before playback moves on.

\* the source's metadata arrives
LoadedMetadata(d) ==
  /\ audioElement.events = <<>>
  /\ audioElement.src # <<>>
  /\ audioElement.duration = NaN
  /\ audioElement' = [audioElement EXCEPT !.duration = d,
                                          !.events = Queued(@, <<"loadedmetadata">>)]
  /\ Room
  /\ lastOp' = <<"media">>
  /\ UNCHANGED <<lifecycle, ctlVars, hlVars>>

\* playback moves on by step seconds
TimeAdvance(step) ==
  /\ audioElement.events = <<>>
  /\ ~audioElement.paused
  /\ audioElement.duration # NaN
  /\ audioElement.currentTime < DurationTicks(audioElement)
  /\ audioElement' =
       [audioElement EXCEPT
          !.currentTime = Min(@ + step * RectWidth, DurationTicks(audioElement)),
          !.events = Queued(@, <<"timeupdate">>)]
  /\ Room
  /\ lastOp' = <<"media">>
  /\ UNCHANGED <<lifecycle, ctlVars, hlVars>>

\* playback reaches the end of the media: the element pauses and says so
MediaEnded ==
  /\ audioElement.events = <<>>
  /\ ~audioElement.paused
  /\ audioElement.duration # NaN
  /\ audioElement.currentTime = DurationTicks(audioElement)
  /\ audioElement' = [audioElement EXCEPT
                        !.paused = TRUE,
                        !.events = Queued(@, <<"timeupdate", "pause", "ended">>)]
  /\ Room
  /\ lastOp' = <<"media">>
  /\ UNCHANGED <<lifecycle, ctlVars, hlVars>>

\* the pass that has just run left paragraph p alone for want of a marker
SkippedByLastPass(p) ==
  /\ lastOp[1] = "highlightTranslations"
  /\ ~paras[p].processed
  /\ ~Includes(paras[p].html)

\* the host renders a paragraph anew: a fresh element
HostRender(p, text) ==
  /\ paras' = [paras EXCEPT ![p] = [html |-> text, processed |-> FALSE,
                                    containers |-> @.containers]]
  /\ lastOp' = <<"host", "render", p, FALSE>>
  /\ UNCHANGED <<lifecycle, ctlVars, audioElement, timers>>

\* the host changes the content of a paragraph in place
HostMutate(p, text) ==
  /\ paras[p].html # text
  /\ paras' = [paras EXCEPT ![p].html = text]
  /\ lastOp' = <<"host", "mutate", p, SkippedByLastPass(p)>>
  /\ UNCHANGED <<lifecycle, ctlVars, audioElement, timers>>

Next ==
  \/ \E file \in Docs \cup {NoFile} : OnloadActiveFile(file)
  \/ \E file \in Docs \cup {NoFile} : FileOpen(file)
  \/ LayoutChange
  \/ TimerFire
  \/ \E seconds \in {-10, 10} : ClickSkip(seconds)
  \/ \E allowed \in BOOLEAN : ClickPlay(allowed)
  \/ \E clientX \in 0..RectWidth : ClickProgressBar(clientX)
  \/ ClickSpeed
  \/ ClickClose
  \/ Onunload
  \/ DispatchEvent
  \/ \E d \in Durations : LoadedMetadata(d)
  \/ \E step \in Advances : TimeAdvance(step)
  \/ MediaEnded

Spec == Init /\ [][Next]_vars

\* the highlighter and the host's rendering, with the control surface untouched
NextHighlight ==
  \/ \E file \in Docs \cup {NoFile} : OnloadActiveFile(file)
  \/ \E file \in Docs \cup {NoFile} : FileOpen(file)
  \/ LayoutChange
  \/ TimerFire
  \/ Onunload
  \/ \E p \in 1..NumParas, text \in ParaTexts : HostRender(p, text)
  \/ \E p \in 1..NumParas, text \in ParaTexts : HostMutate(p, text)

SpecHighlight == InitHighlight /\ [][NextHighlight]_vars

----------------------------------------------------------------------------
(* Properties of the playback controller *)

\* a document-opened event or onload's check of the active file, for file
Opened(file) == FileOpen(file) \/ OnloadActiveFile(file)

\* what a fresh bind to file leaves behind
FreshBind(file) ==
  /\ currentFile' = file.path
  /\ audioElement'.src =
       SubSeq(file.audio,
              IF Head(file.audio) \in Quotes THEN 2 ELSE 1,
              IF Len(file.audio) > 1 /\ file.audio[Len(file.audio)] \in Quotes
              THEN Len(file.audio) - 1 ELSE Len(file.audio))
  /\ audioElement'.currentTime = 0
  /\ timeDisplay' = "0:00 / 0:00"
  /\ progressFill' = <<0, 1>>
  /\ titleDisplay' = file.basename
  /\ display' = "block"

\* C1: opening the document that is already bound (same path, audio reference
\* present) leaves the source, the position, the paused/playing state and the
\* title as they are, and only shows the control surface.
C1_ReopenKeepsPlayback ==
  [][\A file \in Docs :
       (Opened(file) /\ file.audio # <<>> /\ currentFile = file.path)
         => /\ audioElement' = audioElement
            /\ UNCHANGED <<currentFile, isPlaying, playBtn, playbackSpeed, speedBtn,
                           titleDisplay, timeDisplay, progressFill, attached>>
            /\ display' = "block"
            /\ bodyActive' = TRUE]_vars

C1_Witness ==
  /\ lastOp = <<"handleFileOpen", "a.md", "same", <<"u1">> >>
  /\ currentFile = "a.md"
  /\ ~audioElement.paused
  /\ audioElement.currentTime > 0

C3_OpenOtherDocumentRebinds ==
  [][\A file \in Docs :
       (Opened(file) /\ file.audio # <<>> /\ currentFile # file.path)
         => FreshBind(file)]_vars

C3_Witness ==
  /\ lastOp = <<"handleFileOpen", "a.md", "rebind", <<"u2">> >>
  /\ currentFile = "a.md"
  /\ audioElement.src = <<"u1">>
  /\ titleDisplay = "a"
  /\ display = "block"

\* C4: hide() pauses the media, hides the surface and clears the bound path,
\* so that while the surface is hidden an open of any document with an audio
\* reference, the one bound before included, is a fresh bind.
C4_HideThenReopenIsFresh ==
  [][/\ ClickClose => /\ audioElement'.paused
                      /\ display' = "none"
                      /\ currentFile' = Null
     /\ \A file \in Docs :
          (FileOpen(file) /\ file.audio # <<>> /\ display = "none")
            => FreshBind(file)]_vars

C4_Witness ==
  /\ lastOp = <<"handleFileOpen", "a.md", "rebind", <<"u1">> >>
  /\ currentFile = "a.md"
  /\ audioElement.src = <<"u1">>
  /\ display = "block"

\* C5: isPlaying and the play/pause glyph change only when a play, pause or
\* ended event of the media element is dispatched; a togglePlay while paused
\* whose play request is rejected changes nothing and queues no event.
C5_GlyphOnlyFromMediaEvents ==
  [][/\ (isPlaying' # isPlaying \/ playBtn' # playBtn)
          => /\ DispatchEvent
             /\ Head(audioElement.events) \in {"play", "pause", "ended"}
     /\ (ClickPlay(FALSE) /\ audioElement.paused)
          => /\ audioElement' = audioElement
             /\ UNCHANGED ctlVars]_vars

C5_Witness ==
  /\ lastOp = <<"togglePlay", "rejected">>
  /\ audioElement.paused
  /\ ~isPlaying
  /\ playBtn = "playIcon"
  /\ audioElement.events = <<>>

\* C6: whenever every queued media event has been dispatched, the controller
\* shows the playing glyph exactly when the media element is not paused.
C6_GlyphMatchesMedia ==
  (lifecycle = "active" /\ audioElement.events = <<>>)
    => /\ isPlaying = ~audioElement.paused
       /\ (playBtn = "pauseIcon") = ~audioElement.paused

\* clamp(x, lo, hi)
Clamp(x, lo, hi) == IF x < lo THEN lo ELSE IF x > hi THEN hi ELSE x

\* C7: skip(delta) moves the position to clamp(currentTime + delta, 0,
\* duration) when the duration is known and changes nothing when it is not;
\* the position stays within 0..duration whenever the duration is known.
C7_SkipClamps ==
  /\ [](audioElement.duration # NaN
          => (0 <= audioElement.currentTime
              /\ audioElement.currentTime <= DurationTicks(audioElement)))
  /\ [][\A seconds \in {-10, 10} :
          ClickSkip(seconds)
            => IF audioElement.duration # NaN
               THEN audioElement'.currentTime =
                      Clamp(audioElement.currentTime + seconds * RectWidth,
                            0, DurationTicks(audioElement))
               ELSE audioElement' = audioElement /\ UNCHANGED ctlVars]_vars

\* skip(-10) five seconds into fifteen lands on 0
C7_Witness ==
  /\ lastOp = <<"skip", -10, 5 * RectWidth>>
  /\ audioElement.duration = 15
  /\ audioElement.currentTime = 0

\* C8: a click at the fraction f = clientX / RectWidth of the progress bar
\* moves the position to f * duration when the duration is known and not
\* zero, and changes nothing otherwise.
C8_SeekToFraction ==
  [][\A clientX \in 0..RectWidth :
       ClickProgressBar(clientX)
         => IF audioElement.duration # NaN /\ audioElement.duration # 0
            THEN audioElement'.currentTime * RectWidth
                   = clientX * DurationTicks(audioElement)
            ELSE audioElement' = audioElement /\ UNCHANGED <<ctlVars, hlVars>>]_vars

\* a click in the middle of the bar, fifteen seconds long
C8_Witness ==
  /\ lastOp = <<"seekToFraction", 1, 15>>
  /\ RectWidth = 2
  /\ 2 * audioElement.currentTime = DurationTicks(audioElement)

\* the rates in their order, and the label of each
C9_Next == [r \in {75, 100, 125, 150, 175, 200} |-> IF r = 200 THEN 75 ELSE r + 25]
C9_Label == (75 :> "0.75x") @@ (100 :> "1x") @@ (125 :> "1.25x") @@ (150 :> "1.5x")
            @@ (175 :> "1.75x") @@ (200 :> "2x")

\* C9: cycleRate moves the rate to the next of 0.75, 1, 1.25, 1.5, 1.75, 2,
\* from 2 back to 0.75, and sets the media element's rate and the rate label in
\* the same step; the rate is always one of the six, and six calls in a row
\* bring it back to where it started.
C9_CycleRate ==
  /\ [](playbackSpeed \in DOMAIN C9_Next)
  /\ [](NextSpeed(NextSpeed(NextSpeed(NextSpeed(NextSpeed(NextSpeed(
           playbackSpeed)))))) = playbackSpeed)
  /\ [][ClickSpeed => /\ playbackSpeed' = C9_Next[playbackSpeed]
                      /\ audioElement'.playbackRate = playbackSpeed'
                      /\ speedBtn' = C9_Label[playbackSpeed']]_vars

\* the step from 2 back to 0.75
C9_Witness ==
  /\ lastOp = <<"cycleSpeed">>
  /\ playbackSpeed = 75
  /\ audioElement.playbackRate = 75
  /\ speedBtn = "0.75x"

----------------------------------------------------------------------------
(* Properties of the highlighter *)

\* a highlightTranslations pass: a layout change or a timer of handleFileOpen
ScanPass == LayoutChange \/ TimerFire

\* some wrapper opens inside another one
WrappedTwice(html) ==
  \E i, j \in 1..Len(html) :
    /\ i < j
    /\ html[i] = SpanOpen
    /\ html[j] = SpanOpen
    /\ \A k \in (i + 1)..(j - 1) : html[k] # SpanClose

\* C10: a pass changes no paragraph that is flagged processed, a pass right
\* after a pass changes nothing at all, and no marker is wrapped twice.
C10_ScanIdempotent ==
  /\ [](\A p \in DOMAIN paras : ~WrappedTwice(paras[p].html))
  /\ [][ScanPass => /\ \A p \in Flagged(paras) : paras'[p] = paras[p]
                    /\ HighlightTranslations(paras') = paras']_vars

\* a pass over a flagged paragraph whose wrapped marker still holds an opening
\* token, which a pass without the flag would wrap again
C10_Witness ==
  /\ lastOp[1] = "highlightTranslations"
  /\ lastOp[2] = {1}
  /\ paras[1].processed
  /\ paras[1].html = <<"[", SpanOpen, "T", "[", "T", "]", SpanClose, "]">>
  /\ timers = 0

----------------------------------------------------------------------------
(* The scan as a function of the text: one paragraph of the preview holds   *)
(* any text of brackets, Transl. and other characters, and passes run over  *)
(* it once the plugin is loaded.                                            *)

Symbols == {"[", "]", "T", "x"}

Texts == UNION {[1..n -> Symbols] : n \in 0..MaxLen}

InitScan ==
  /\ InitPlayer
  /\ paras \in [{1} -> [html : Texts, processed : {FALSE}, containers : {1}]]

NextScan ==
  \/ OnloadActiveFile(NoFile)
  \/ LayoutChange

SpecScan == InitScan /\ [][NextScan]_vars

\* an opening token at position i
IsToken(html, i) == i + 1 <= Len(html) /\ html[i] = "[" /\ html[i + 1] = "T"

\* counting brackets from position k on at depth d, the opening token having
\* opened depth 1: the index of the bracket that brings the depth to zero,
\* or 0 when there is none
RECURSIVE Balance(_, _, _)
Balance(html, k, d) ==
  IF k > Len(html) THEN 0
  ELSE IF html[k] = "[" THEN Balance(html, k + 1, d + 1)
  ELSE IF html[k] = "]" THEN IF d = 1 THEN k ELSE Balance(html, k + 1, d - 1)
  ELSE Balance(html, k + 1, d)

\* a bracket opens inside a bracket group before the depth is back to zero
RECURSIVE Deeper(_, _, _)
Deeper(html, k, d) ==
  IF k > Len(html) THEN FALSE
  ELSE IF html[k] = "[" THEN d = 2 \/ Deeper(html, k + 1, d + 1)
  ELSE IF html[k] = "]" THEN d > 1 /\ Deeper(html, k + 1, d - 1)
  ELSE Deeper(html, k + 1, d)

\* every marker of the text holds only bracket groups without brackets
OneLevel(html) ==
  \A i \in 1..Len(html) : IsToken(html, i) => ~Deeper(html, i + 2, 1)

\* the text with every balanced marker wrapped from its opening bracket to
\* its balancing bracket, leftmost first, from position i on
RECURSIVE WrapBalanced(_, _)
WrapBalanced(html, i) ==
  IF i > Len(html) THEN <<>>
  ELSE LET e == IF IsToken(html, i) THEN Balance(html, i + 2, 1) ELSE 0
       IN  IF e # 0
           THEN <<"[", SpanOpen>> \o SubSeq(html, i + 1, e - 1) \o <<SpanClose, "]">>
                  \o WrapBalanced(html, e + 1)
           ELSE <<html[i]>> \o WrapBalanced(html, i + 1)

\* C11: a pass over a paragraph not yet flagged, whose markers nest bracket
\* groups one level deep at most, leaves every marker wrapped from its
\* opening bracket to its balancing bracket, the nested groups inside the
\* wrapper and untouched.
C11_OneLevelNesting ==
  [][ScanPass =>
       \A p \in DOMAIN paras :
         (~paras[p].processed /\ OneLevel(paras[p].html))
           => paras'[p].html = WrapBalanced(paras[p].html, 1)]_vars

\* the marker with one nested group, text before it, after the pass
C11_Witness ==
  /\ lastOp = <<"highlightTranslations", {}, <<>>>>
  /\ paras[1].html = <<"x", "[", SpanOpen, "T", "[", "x", "]", SpanClose, "]">>

----------------------------------------------------------------------------
(* Properties of onunload *)

\* C12: from onunload on, whatever the state it ran in, the media is paused,
\* the container is out of the document and document.body is without the
\* sticky-audio-active class.
C12_UnloadReleases ==
  /\ [](lifecycle = "unloaded"
          => audioElement.paused /\ ~attached /\ ~bodyActive)
  /\ [][Onunload => audioElement'.paused /\ ~attached' /\ ~bodyActive']_vars

\* onunload during playback of a displayed player: the play event had been
\* dispatched, and the media is paused now
C12_Witness ==
  /\ lastOp = <<"onunload">>
  /\ isPlaying
  /\ display = "block"
  /\ audioElement.paused
  /\ ~attached
  /\ ~bodyActive

----------------------------------------------------------------------------
(* formatTime as a function of its argument: times up to MaxSeconds tick by *)
(* tick, some long ones, NaN and infinity, each written to the time display *)

LongTimes == {600, 5999, 6000, 36000}

FormatInputs ==
  {NaN, Infinity} \cup 0..(MaxSeconds * RectWidth)
    \cup {t * RectWidth : t \in LongTimes}

FormatStep(seconds) ==
  /\ timeDisplay' = FormatTime(seconds)
  /\ lastOp' = <<"formatTime", seconds>>
  /\ UNCHANGED <<lifecycle, currentFile, isPlaying, playBtn, playbackSpeed,
                 speedBtn, titleDisplay, progressFill, display, bodyActive,
                 attached, audioElement, hlVars>>

NextFormat == \E seconds \in FormatInputs : FormatStep(seconds)

SpecFormat == Init /\ [][NextFormat]_vars

\* the whole seconds in a time of so many ticks
WholeSeconds(ticks) ==
  CHOOSE f \in 0..ticks : f * RectWidth <= ticks /\ ticks < (f + 1) * RectWidth

\* minutes, a colon, and the seconds left in two digits
Clock(whole) ==
  LET m == CHOOSE n \in 0..whole : whole - 60 * n \in 0..59
      r == whole - 60 * m
  IN  ToString(m) \o ":" \o (IF r <= 9 THEN "0" ELSE "") \o ToString(r)

\* C13: formatTime gives "0:00" for NaN and for an infinite time, and for a
\* finite time of zero or more the whole minutes at any width, a colon, and
\* the whole seconds left, between 00 and 59, in two digits: 125 is "2:05",
\* 59 is "0:59", 0 is "0:00".
C13_FormatTime ==
  lastOp[1] = "formatTime" =>
    LET seconds == lastOp[2]
    IN  /\ seconds \in {NaN, Infinity} => timeDisplay = "0:00"
        /\ seconds >= 0 => timeDisplay = Clock(WholeSeconds(seconds))
        /\ seconds = 125 * RectWidth => timeDisplay = "2:05"
        /\ seconds = 59 * RectWidth => timeDisplay = "0:59"
        /\ seconds = 0 => timeDisplay = "0:00"

\* a fraction of a second short of 125 seconds
C13_Witness ==
  /\ lastOp = <<"formatTime", 125 * RectWidth - 1>>
  /\ timeDisplay = "2:04"

----------------------------------------------------------------------------
(* Nesting deeper than one level *)

\* C14 as stated: a pass wraps every marker of every text from its opening
\* token to the first closing bracket at which the bracket depth is back to
\* zero, and closes no span where the depth is not zero.
C14_DepthCounting ==
  [][ScanPass =>
       \A p \in DOMAIN paras :
         ~paras[p].processed => paras'[p].html = WrapBalanced(paras[p].html, 1)]_vars

\* from position k on, inside a bracket group or not: the index of the first
\* closing bracket outside every group, a group running from an opening
\* bracket to the first closing bracket after it; 0 when there is none
RECURSIVE FirstOutside(_, _, _)
FirstOutside(html, k, inGroup) ==
  IF k > Len(html) THEN 0
  ELSE IF inGroup THEN FirstOutside(html, k + 1, html[k] # "]")
  ELSE IF html[k] = "[" THEN FirstOutside(html, k + 1, TRUE)
  ELSE IF html[k] = "]" THEN k
  ELSE FirstOutside(html, k + 1, FALSE)

\* the text with every marker wrapped up to the first closing bracket
\* outside every group, leftmost first, from position i on
RECURSIVE WrapFlat(_, _)
WrapFlat(html, i) ==
  IF i > Len(html) THEN <<>>
  ELSE LET e == IF IsToken(html, i) THEN FirstOutside(html, i + 2, FALSE) ELSE 0
       IN  IF e # 0
           THEN <<"[", SpanOpen>> \o SubSeq(html, i + 1, e - 1) \o <<SpanClose, "]">>
                  \o WrapFlat(html, e + 1)
           ELSE <<html[i]>> \o WrapFlat(html, i + 1)

\* C14, amended: a pass wraps every marker of every text from its opening
\* token to the first closing bracket that lies outside every bracket group,
\* where a group runs from an opening bracket to the first closing bracket
\* after it and the brackets opening inside a group are not counted.
C14_FirstOutsideGroups ==
  [][ScanPass =>
       \A p \in DOMAIN paras :
         ~paras[p].processed => paras'[p].html = WrapFlat(paras[p].html, 1)]_vars

\* a marker nesting two levels deep after the pass: the span is closed by
\* the bracket that balances the outer nested group
C14_Witness ==
  /\ lastOp = <<"highlightTranslations", {}, <<>>>>
  /\ paras[1].html = <<"[", SpanOpen, "T", "[", "[", "]", SpanClose, "]", "]">>

----------------------------------------------------------------------------
(* Properties of the progress view *)

\* the duration of the media a is known and positive
DurationKnown(a) == a.duration # NaN /\ a.duration > 0

\* fill and time text are what the media state a asks for: the fraction
\* played, or nothing without a positive duration, and both times formatted
ViewOf(a, fill, text) ==
  /\ IF DurationKnown(a) THEN fill = <<a.currentTime, DurationTicks(a)>>
     ELSE fill[1] = 0
  /\ text = FormatTime(a.currentTime) \o " / "
              \o FormatTime(IF a.duration = NaN THEN 0 ELSE DurationTicks(a))

\* a timeupdate or loadedmetadata event waits for its listener
ViewEventPending ==
  \E k \in 1..Len(audioElement.events) :
    audioElement.events[k] \in {"timeupdate", "loadedmetadata"}

----------------------------------------------------------------------------
(* The scan over markup: the paragraph holds brackets, Transl. and the tags *)
(* of inline elements, as para.innerHTML serializes them.                   *)

MarkupSymbols == {"[", "]", "T", EmOpen, EmClose}

\* the markup that is the serialization of some content
Markups ==
  {t \in UNION {[1..n -> MarkupSymbols] : n \in 0..MaxLen} : SetInnerHTML(t) = t}

InitMarkup ==
  /\ InitPlayer
  /\ paras \in [{1} -> [html : Markups, processed : {FALSE}, containers : {1}]]

SpecMarkup == InitMarkup /\ [][NextScan]_vars

\* the markup without the tags of the wrapper
RECURSIVE Unwrapped(_)
Unwrapped(html) ==
  IF html = <<>> THEN <<>>
  ELSE IF Head(html) \in {SpanOpen, SpanClose} THEN Unwrapped(Tail(html))
  ELSE <<Head(html)>> \o Unwrapped(Tail(html))

\* every wrapper opens right after a marker's opening bracket, before its
\* Transl., and closes right before a closing bracket
WrappersInside(html) ==
  \A i \in 1..Len(html) :
    /\ html[i] = SpanOpen
         => i > 1 /\ html[i - 1] = "[" /\ i < Len(html) /\ html[i + 1] = "T"
    /\ html[i] = SpanClose => i < Len(html) /\ html[i + 1] = "]"

\* C16: a pass adds the tags of its wrappers and nothing else: the content
\* of a paragraph after the pass, the wrapper tags deleted, is its content
\* before the pass, and every wrapper lies inside the brackets of its marker.
C16_TextPreserved ==
  [][ScanPass =>
       \A p \in DOMAIN paras :
         ~paras[p].processed
           => /\ Unwrapped(paras'[p].html) = paras[p].html
              /\ WrappersInside(paras'[p].html)]_vars

----------------------------------------------------------------------------
(* A paragraph without a marker, and the marker the host writes into it *)

\* some marker of the text is balanced
HasBalancedMarker(html) ==
  \E i \in 1..Len(html) : IsToken(html, i) /\ Balance(html, i + 2, 1) # 0

\* C17: a pass leaves a paragraph without the opening token as it is, its
\* content and its missing flag alike; and a pass over an unflagged paragraph
\* that holds a well-formed marker, such as the host has written into a
\* paragraph skipped before, flags it and wraps the marker.
C17_SkippedThenWrapped ==
  /\ [][ScanPass =>
          \A p \in DOMAIN paras :
            (~paras[p].processed
               /\ \A i \in 1..Len(paras[p].html) : ~IsToken(paras[p].html, i))
              => paras'[p] = paras[p]]_vars
  /\ [][ScanPass =>
          \A p \in DOMAIN paras :
            (~paras[p].processed /\ OneLevel(paras[p].html)
               /\ HasBalancedMarker(paras[p].html))
              => /\ paras'[p].processed
                 /\ paras'[p].html # paras[p].html
                 /\ paras'[p].html = WrapBalanced(paras[p].html, 1)]_vars

\* a pass has skipped the paragraph, the host has written a marker into it
\* in place, and the next pass has wrapped the marker
C17_Witness ==
  /\ lastOp = <<"highlightTranslations", {}, <<"host", "mutate", 1, TRUE>>>>
  /\ paras[1].processed
  /\ paras[1].html = <<"x", "[", SpanOpen, "T", "x", SpanClose, "]">>

----------------------------------------------------------------------------
(* Malformed markers *)

\* the symbols of the content among the first k symbols of the markup out
Plain(out, k) == Cardinality({j \in 1..k : out[j] \notin {SpanOpen, SpanClose}})

\* the wrappers of the markup out, each as the positions in the content of
\* the opening bracket before it and of the closing bracket after it
Spans(out) ==
  {<<Plain(out, k), Plain(out, m) + 1>> :
     <<k, m>> \in {km \in (1..Len(out)) \X (1..Len(out)) :
                    /\ km[1] < km[2]
                    /\ out[km[1]] = SpanOpen
                    /\ out[km[2]] = SpanClose
                    /\ \A j \in (km[1] + 1)..(km[2] - 1) : out[j] # SpanClose}}

\* the pass from content html to markup out treats malformed markers as the
\* claim says, End(html, k) being the bracket that closes the marker whose
\* body starts at k, or 0 for a malformed one: the content is kept, no
\* wrapper starts at a malformed marker, every other marker is wrapped up to
\* its closing bracket unless it lies in a span that started before it, and
\* no two spans overlap
MalformedLeftAlone(End(_, _), html, out) ==
  /\ Unwrapped(out) = html
  /\ \A i \in 1..Len(html) :
       IsToken(html, i) =>
         IF End(html, i + 2) = 0
         THEN \A sp \in Spans(out) : sp[1] # i
         ELSE \/ <<i, End(html, i + 2)>> \in Spans(out)
              \/ \E sp \in Spans(out) : sp[1] < i /\ i < sp[2]
  /\ \A sp, sq \in Spans(out) : sp = sq \/ sp[2] < sq[1] \/ sq[2] < sp[1]

BalancedEnd(html, k) == Balance(html, k, 1)

FlatEnd(html, k) == FirstOutside(html, k, FALSE)

\* C18 as stated: an opening token whose brackets never balance gets no
\* wrapper, and every other, well-formed marker of the paragraph is wrapped
\* in the same pass, leftmost first and without overlap.
C18_MalformedByDepth ==
  [][ScanPass =>
       \A p \in DOMAIN paras :
         ~paras[p].processed
           => MalformedLeftAlone(BalancedEnd, paras[p].html, paras'[p].html)]_vars

\* C18, amended: an opening token that no closing bracket outside every
\* bracket group follows, a group running from an opening bracket to the
\* first closing bracket after it, gets no wrapper, and every other marker of
\* the paragraph is wrapped in the same pass up to that closing bracket,
\* leftmost first and without overlap.
C18_MalformedLeftAlone ==
  [][ScanPass =>
       \A p \in DOMAIN paras :
         ~paras[p].processed
           => MalformedLeftAlone(FlatEnd, paras[p].html, paras'[p].html)]_vars

\* a malformed marker left as it was and the marker inside it wrapped
C18_Witness ==
  /\ lastOp = <<"highlightTranslations", {}, <<>>>>
  /\ paras[1].processed
  /\ paras[1].html = <<"[", "T", "[", SpanOpen, "T", "x", SpanClose, "]">>

----------------------------------------------------------------------------
(* Passes after onunload *)

\* C19: once onunload has run, whatever file-open and layout-change events
\* and pending timers came before it, no highlightTranslations pass runs,
\* and so none changes the rendered paragraphs.
C19_NoPassAfterUnload ==
  [][lifecycle = "unloaded" => ~ScanPass]_vars

----------------------------------------------------------------------------
(* The rate across rebinds *)

\* C20: while the plugin is loaded, after any file-open events and clicks on
\* the speed button, the media element plays at the rate the controller
\* holds, and the speed button shows that rate.
C20_RateAgrees ==
  lifecycle = "active"
    => /\ audioElement.playbackRate = playbackSpeed
       /\ speedBtn = C9_Label[playbackSpeed]

====
